---------------------------- MODULE Spec2Model ----------------------------
(***************************************************************************)
(* DWAValidator (ultralytics/models/yolo/dwa/val.py): the per-image        *)
(* statistics pass of the attribute-augmented detection validator.         *)
(*                                                                         *)
(* Numbers are fixed point.  Box coordinates are whole pixels; a           *)
(* normalised label coordinate n stands for n / (2 * image size);          *)
(* probabilities and JSON box values are in units of 1/10000 and           *)
(* confidences in units of 1/1000000.  An IoU is kept as the pair          *)
(* <<intersection, union>> and compared by cross-multiplication.           *)
(* A tensor is a record [dtype, shape, data] so that a matrix with zero    *)
(* rows keeps its column count.                                            *)
(***************************************************************************)
EXTENDS Integers, Sequences, FiniteSets, TLC

VARIABLES pc, args, preds, batch, si, stats, seen, jdict, confusion_matrix,
          tattributes, num_attrs

vars == <<pc, args, preds, batch, si, stats, seen, jdict, confusion_matrix,
          tattributes, num_attrs>>

(***************************************************************************)
(* Bounds of the model.                                                    *)
(***************************************************************************)
MaxBatch == 2

MaxPred == 2

MaxLabel == 2

NumAttr == 2

(***************************************************************************)
(* Input alphabets.                                                        *)
(***************************************************************************)
Classes == {0, 1}

Logits == {-1, 0, 1}

\* Model-space boxes (x1, y1, x2, y2) inside the 8 x 8 input tensor.
BoxA == <<0, 0, 6, 8>>

BoxB == <<0, 0, 4, 8>>

BoxE == <<2, 0, 6, 8>>

BoxF == <<2, 0, 8, 8>>

\* Letterbox geometries: no resize, and a 12 x 16 original that was halved
\* and padded by one pixel left and right.  gain is the rational <<num, den>>.
Plain == [img_shape |-> <<8, 8>>, ori_shape |-> <<8, 8>>,
          ratio_pad |-> [gain |-> <<1, 1>>, pad |-> <<0, 0>>]]

Halved == [img_shape |-> <<8, 8>>, ori_shape |-> <<16, 12>>,
           ratio_pad |-> [gain |-> <<1, 2>>, pad |-> <<1, 0>>]]

\* A local variable of update_metrics: not yet assigned, or assigned a value.
Unbound == [bound |-> FALSE]

Bound(value) == [bound |-> TRUE, value |-> value]

(***************************************************************************)
(* Sequences and tensors.                                                  *)
(***************************************************************************)
SeqsUpTo(S, n) == UNION {[1..k -> S] : k \in 0..n}

SeqsFromTo(S, m, n) == UNION {[1..k -> S] : k \in m..n}

Min(a, b) == IF a < b THEN a ELSE b

Max(a, b) == IF a > b THEN a ELSE b

Tensor(dtype, rows, cols, data) ==
    [dtype |-> dtype, shape |-> <<rows, cols>>, data |-> data]

zeros(dtype, rows, cols) ==
    Tensor(dtype, rows, cols,
           [r \in 1..rows |-> [c \in 1..cols |-> IF dtype = "bool" THEN FALSE ELSE 0]])

(***************************************************************************)
(* The validator's IoU thresholds, 0.50 .. 0.95, in hundredths.            *)
(***************************************************************************)
iouv == <<50, 55, 60, 65, 70, 75, 80, 85, 90, 95>>

niou == Len(iouv)

(***************************************************************************)
(* ops: box conversions.                                                   *)
(***************************************************************************)
\* (cx, cy, w, h) -> (x1, y1, x2, y2), in the units of its argument.
xywh2xyxy(b) ==
    <<b[1] - b[3] \div 2, b[2] - b[4] \div 2, b[1] + b[3] \div 2, b[2] + b[4] \div 2>>

\* A normalised corner box times (width, height, width, height): pixels.
to_pixels(b, width, height) ==
    <<(b[1] * width) \div (2 * width), (b[2] * height) \div (2 * height),
      (b[3] * width) \div (2 * width), (b[4] * height) \div (2 * height)>>

clip(x, hi) == Max(0, Min(x, hi))

\* Undo the letterbox: subtract the padding, divide by the gain, clip to the
\* original image (ori_shape is (height, width)).
scale_boxes(b, ori_shape, ratio_pad) ==
    LET num == ratio_pad.gain[1]
        den == ratio_pad.gain[2]
        px  == ratio_pad.pad[1]
        py  == ratio_pad.pad[2]
    IN  <<clip(((b[1] - px) * den) \div num, ori_shape[2]),
          clip(((b[2] - py) * den) \div num, ori_shape[1]),
          clip(((b[3] - px) * den) \div num, ori_shape[2]),
          clip(((b[4] - py) * den) \div num, ori_shape[1])>>

\* (x1, y1, x2, y2) in pixels -> (cx, cy, w, h) in ten-thousandths of a pixel.
xyxy2xywh(b) ==
    <<(b[1] + b[3]) * 5000, (b[2] + b[4]) * 5000,
      (b[3] - b[1]) * 10000, (b[4] - b[2]) * 10000>>

\* Python's round: to the nearest multiple of unit, halves to the even one.
round_to(x, unit) ==
    LET q == x \div unit
        r == x % unit
    IN  IF 2 * r > unit \/ (2 * r = unit /\ q % 2 = 1) THEN (q + 1) * unit ELSE q * unit

\* round(x, 3) of a value held in ten-thousandths.
round3(x) == round_to(x, 10)

\* round(x, 5) of a confidence held in millionths.
round5(x) == round_to(x, 10)

(***************************************************************************)
(* metrics.box_iou: intersection over union of two corner boxes.           *)
(***************************************************************************)
area(b) == (b[3] - b[1]) * (b[4] - b[2])

box_iou_pair(a, b) ==
    LET w     == Max(0, Min(a[3], b[3]) - Max(a[1], b[1]))
        h     == Max(0, Min(a[4], b[4]) - Max(a[2], b[2]))
        inter == w * h
        union == area(a) + area(b) - inter
    IN  IF union = 0 THEN <<0, 1>> ELSE <<inter, union>>

\* [labels x detections] matrix.
box_iou(lboxes, dboxes) ==
    [l \in 1..Len(lboxes) |-> [p \in 1..Len(dboxes) |-> box_iou_pair(lboxes[l], dboxes[p])]]

IouGt(x, y) == x[1] * y[2] > y[1] * x[2]

IouEq(x, y) == x[1] * y[2] = y[1] * x[2]

\* iou >= t / 100
IouReaches(x, t) == x[1] * 100 >= t * x[2]

\* iou.max(1): for each label the first detection of maximal IoU.
argmax_rows(iou, npr) ==
    [l \in 1..Len(iou) |->
        CHOOSE p \in 1..npr :
            /\ \A q \in 1..npr : ~IouGt(iou[l][q], iou[l][p])
            /\ \A q \in 1..(p - 1) : IouGt(iou[l][p], iou[l][q])]

(***************************************************************************)
(* BaseValidator.match_predictions: the [detections x thresholds]          *)
(* correctness matrix.  Wrong-class pairs are zeroed; at each threshold    *)
(* the pairs reaching it are sorted by IoU, every detection keeps its      *)
(* first (best) label and every label keeps its first (lowest-index, so    *)
(* highest-confidence) detection.  The order of equal IoUs in the sort is  *)
(* not fixed by the sort: tie[p] names the label detection p keeps when    *)
(* several of its labels share its best IoU.                               *)
(***************************************************************************)
masked_iou(pred_classes, true_classes, iou) ==
    [l \in 1..Len(true_classes) |->
        [p \in 1..Len(pred_classes) |->
            IF true_classes[l] = pred_classes[p] THEN iou[l][p] ELSE <<0, 1>>]]

candidates(m, p, t) == {l \in 1..Len(m) : IouReaches(m[l][p], t)}

best_labels(m, p, t) ==
    {l \in candidates(m, p, t) : \A k \in candidates(m, p, t) : ~IouGt(m[k][p], m[l][p])}

kept_label(m, p, t, tie) ==
    IF tie[p] \in best_labels(m, p, t) THEN tie[p]
    ELSE CHOOSE l \in best_labels(m, p, t) : \A k \in best_labels(m, p, t) : l <= k

match_predictions(pred_classes, true_classes, iou, tie) ==
    LET m == masked_iou(pred_classes, true_classes, iou)
        n == Len(pred_classes)
    IN  Tensor("bool", n, Len(iouv),
            [p \in 1..n |-> [i \in 1..Len(iouv) |->
                /\ candidates(m, p, iouv[i]) # {}
                /\ \A q \in 1..(p - 1) :
                      \/ candidates(m, q, iouv[i]) = {}
                      \/ kept_label(m, q, iouv[i], tie) # kept_label(m, p, iouv[i], tie)]])

\* The orders the sort may leave equal IoUs in, as far as they change the result.
tie_orders(pred_classes, true_classes, iou) ==
    LET m == masked_iou(pred_classes, true_classes, iou)
        hit(p)  == {l \in 1..Len(m) : IouGt(m[l][p], <<0, 1>>)}
        tied(p) == IF hit(p) = {} THEN {1}
                   ELSE {l \in hit(p) : \A k \in hit(p) : ~IouGt(m[k][p], m[l][p])}
    IN  {f \in [1..Len(pred_classes) -> 1..Len(true_classes)] :
            \A p \in 1..Len(pred_classes) : f[p] \in tied(p)}

(***************************************************************************)
(* Variants of _process_batch with one slip each: the confidence column    *)
(* read as the detections' class, the first box coordinate read as the     *)
(* labels' class, and the best index taken among same-class detections.    *)
(***************************************************************************)
process_batch_conf_column(detections, labels, tie) ==
    LET iou == box_iou([l \in 1..Len(labels) |-> labels[l].box],
                       [p \in 1..Len(detections) |-> detections[p].box])
        idx == argmax_rows(iou, Len(detections))
    IN  [correct |-> match_predictions([p \in 1..Len(detections) |-> detections[p].conf],
                                       [l \in 1..Len(labels) |-> labels[l].cls], iou, tie),
         idx |-> idx]

process_batch_label_column(detections, labels, tie) ==
    LET iou == box_iou([l \in 1..Len(labels) |-> labels[l].box],
                       [p \in 1..Len(detections) |-> detections[p].box])
        idx == argmax_rows(iou, Len(detections))
    IN  [correct |-> match_predictions([p \in 1..Len(detections) |-> detections[p].cls],
                                       [l \in 1..Len(labels) |-> labels[l].box[1]], iou, tie),
         idx |-> idx]

process_batch_best_same_class(detections, labels, tie) ==
    LET iou == box_iou([l \in 1..Len(labels) |-> labels[l].box],
                       [p \in 1..Len(detections) |-> detections[p].box])
        pcl == [p \in 1..Len(detections) |-> detections[p].cls]
        tcl == [l \in 1..Len(labels) |-> labels[l].cls]
    IN  [correct |-> match_predictions(pcl, tcl, iou, tie),
         idx |-> argmax_rows(masked_iou(pcl, tcl, iou), Len(detections))]

(***************************************************************************)
(* DWAValidator._process_batch                                             *)
(***************************************************************************)
process_batch(detections, labels, tie) ==
    LET iou == box_iou([l \in 1..Len(labels) |-> labels[l].box],
                       [p \in 1..Len(detections) |-> detections[p].box])
        idx == argmax_rows(iou, Len(detections))
    IN  [correct |-> match_predictions([p \in 1..Len(detections) |-> detections[p].cls],
                                       [l \in 1..Len(labels) |-> labels[l].cls], iou, tie),
         idx |-> idx]

(***************************************************************************)
(* The data a validation step is given.  An image is [pred, labels,        *)
(* ori_shape, ratio_pad]; the dataloader collates the images of a batch    *)
(* into flat label tensors with batch_idx naming each row's image (images  *)
(* are counted from 1 here).                                               *)
(***************************************************************************)
\* The dataset's label format of a pixel box: centre and size, normalised.
normalised(b) == <<b[1] + b[3], b[2] + b[4], 2 * (b[3] - b[1]), 2 * (b[4] - b[2])>>

\* Non-max suppression returns detections by falling confidence.
ConfAt(i) == 912346 - 100000 * i

BitLogit(i, a) == IF (i \div (2 ^ (a - 1))) % 2 = 1 THEN 1 ELSE -1

Detection(i, box, cls, attr) == [box |-> box, conf |-> ConfAt(i), cls |-> cls, attr |-> attr]

Label(j, box, cls) ==
    [cls |-> cls, bbox |-> normalised(box),
     attributes |-> [a \in 1..NumAttr |-> IF (j + a) % 2 = 0 THEN 1 ELSE 0]]

CanonBox(i) == <<i - 1, 0, i + 3, 8>>

CanonPred(i) == Detection(i, CanonBox(i), i % 2, [a \in 1..NumAttr |-> BitLogit(i, a)])

CanonLabel(j) == Label(j, CanonBox(j), j % 2)

Image(pred, labels, geometry) ==
    [pred |-> pred, labels |-> labels,
     ori_shape |-> geometry.ori_shape, ratio_pad |-> geometry.ratio_pad]

FileOf(i) == IF i % 2 = 1 THEN [stem |-> <<"digits", 138 + i>>] ELSE [stem |-> <<"text", i>>]

RECURSIVE FlatLabels(_, _)
FlatLabels(images, i) ==
    IF i > Len(images) THEN <<>>
    ELSE [l \in 1..Len(images[i].labels) |-> [image |-> i, label |-> images[i].labels[l]]]
         \o FlatLabels(images, i + 1)

Collate(images) ==
    LET flat == FlatLabels(images, 1)
        n    == Len(flat)
    IN  [img        |-> Plain.img_shape,
         n_images   |-> Len(images),
         batch_idx  |-> [k \in 1..n |-> flat[k].image],
         cls        |-> [k \in 1..n |-> flat[k].label.cls],
         bboxes     |-> [k \in 1..n |-> flat[k].label.bbox],
         attributes |-> Tensor("float", n, NumAttr, [k \in 1..n |-> flat[k].label.attributes]),
         ori_shape  |-> [i \in 1..Len(images) |-> images[i].ori_shape],
         ratio_pad  |-> [i \in 1..Len(images) |-> images[i].ratio_pad],
         im_file    |-> [i \in 1..Len(images) |-> FileOf(i)]]

Predictions(images) == [i \in 1..Len(images) |-> images[i].pred]

\* Images that differ in how many predictions and labels they have.
ShapeImages ==
    {Image([i \in 1..n |-> CanonPred(i)], [j \in 1..m |-> CanonLabel(j)], Plain) :
        n \in 0..MaxPred, m \in 0..MaxLabel}

\* Images that differ in where the boxes lie and which class they have.
MatchPreds == {<<BoxA, 0>>, <<BoxA, 1>>, <<BoxB, 0>>, <<BoxF, 0>>}

MatchLabels == {BoxA, BoxE} \X Classes

MatchImages ==
    {Image([i \in 1..Len(ps) |->
               Detection(i, ps[i][1], ps[i][2], [a \in 1..NumAttr |-> BitLogit(i, a)])],
           [j \in 1..Len(ls) |-> Label(j, ls[j][1], ls[j][2])], g) :
        ps \in SeqsFromTo(MatchPreds, 1, MaxPred),
        ls \in SeqsFromTo(MatchLabels, 1, MaxLabel),
        g \in {Plain, Halved}}

\* Images that differ in the attribute logits of their predictions.
AttrImages ==
    {Image([i \in 1..Len(as) |-> Detection(i, CanonBox(i), i % 2, as[i])],
           <<CanonLabel(j)>>, Plain) :
        as \in SeqsFromTo([1..NumAttr -> Logits], 1, MaxPred), j \in 1..MaxLabel}

Flags(plots, save_json, single_cls) ==
    [plots |-> plots, save_json |-> save_json, single_cls |-> single_cls]

(***************************************************************************)
(* DWAValidator.__init__: the state after construction, before the         *)
(* validation loop calls init_metrics and then update_metrics on a batch.  *)
(***************************************************************************)
Constructed(argset, data) ==
    /\ pc = "constructed"
    /\ args \in argset
    /\ \E images \in data : preds = Predictions(images) /\ batch = Collate(images)
    /\ si = 0
    /\ stats = <<>>
    /\ seen = 0
    /\ jdict = <<>>
    /\ confusion_matrix = <<>>
    /\ tattributes = Unbound
    /\ num_attrs = "None"

Init ==
    Constructed({Flags(p, j, s) : p \in BOOLEAN, j \in BOOLEAN, s \in BOOLEAN},
                SeqsUpTo(ShapeImages, MaxBatch))

InitMatch ==
    Constructed({Flags(TRUE, TRUE, FALSE)},
                {<<im>> : im \in MatchImages})

InitAttr ==
    Constructed({Flags(FALSE, TRUE, FALSE)}, {<<im>> : im \in AttrImages})

(***************************************************************************)
(* DWAValidator.init_metrics                                               *)
(***************************************************************************)
init_metrics ==
    /\ pc = "constructed"
    /\ pc' = "ready"
    /\ num_attrs' = NumAttr
    /\ UNCHANGED <<args, preds, batch, si, stats, seen, jdict, confusion_matrix, tattributes>>

(***************************************************************************)
(* DWAValidator.update_metrics, one step per image of the batch.           *)
(***************************************************************************)
\* batch[...][batch['batch_idx'] == si]
rows_of(b, i) == {k \in 1..Len(b.batch_idx) : b.batch_idx[k] = i}

RECURSIVE pick(_, _, _)
pick(seq, keep, k) ==
    IF k > Len(seq) THEN <<>>
    ELSE (IF k \in keep THEN <<seq[k]>> ELSE <<>>) \o pick(seq, keep, k + 1)

select(seq, keep) == pick(seq, keep, 1)

select_rows(t, keep) ==
    Tensor(t.dtype, Cardinality(keep), t.shape[2], select(t.data, keep))

\* Variant: the matrix initialised without its threshold dimension.
init_correct_bboxes_flat(npr) == zeros("bool", npr, 1)

init_correct_bboxes(npr) == zeros("bool", npr, niou)

\* The statistics row of an image without predictions.
empty_stats_row(correct_bboxes, num_attr, cls) ==
    [correct_bboxes |-> correct_bboxes,
     pred_attr      |-> zeros("float", 0, num_attr),
     tattributes    |-> zeros("float", 0, num_attr),
     conf           |-> <<>>,
     pred_cls       |-> <<>>,
     target_cls     |-> cls]

\* Variant: the row appended whether or not the image has labels.
appends_always(nl) == TRUE

appends_without_predictions(nl) == nl > 0

\* pred[:, 5] = 0 under single_cls (in place: the statistics row sees it).
apply_single_cls(pred, single_cls) ==
    IF single_cls THEN [p \in 1..Len(pred) |-> [pred[p] EXCEPT !.cls = 0]] ELSE pred

\* predn: a clone of pred with its boxes in the original image's space.
native_pred(pred, ori_shape, ratio_pad) ==
    [p \in 1..Len(pred) |-> [pred[p] EXCEPT !.box = scale_boxes(@, ori_shape, ratio_pad)]]

\* torch.sigmoid of a logit, in ten-thousandths.
sigmoid(x) == CASE x = -1 -> 2689 [] x = 0 -> 5000 [] x = 1 -> 7311

pred_attr_of(predn, num_attr) ==
    Tensor("float", Len(predn), num_attr,
           [p \in 1..Len(predn) |-> [a \in 1..num_attr |-> sigmoid(predn[p].attr[a])]])

\* tbox: the labels' boxes in the original image's space.
target_boxes(bbox, img_shape, ori_shape, ratio_pad) ==
    [l \in 1..Len(bbox) |->
        scale_boxes(to_pixels(xywh2xyxy(bbox[l]), img_shape[2], img_shape[1]),
                    ori_shape, ratio_pad)]

\* attributes.clone().bool()
bool_attributes(attributes) ==
    Tensor("bool", attributes.shape[1], attributes.shape[2],
           [l \in 1..attributes.shape[1] |->
               [a \in 1..attributes.shape[2] |-> attributes.data[l][a] # 0]])

\* Variant: pred_attr[idx] >= 0.5
threshold_from_half(pred_attr, idx) ==
    Tensor("bool", Len(idx), pred_attr.shape[2],
           [l \in 1..Len(idx) |->
               [a \in 1..pred_attr.shape[2] |-> pred_attr.data[idx[l]][a] >= 5000]])

\* pred_attr[idx] > 0.5
threshold(pred_attr, idx) ==
    Tensor("bool", Len(idx), pred_attr.shape[2],
           [l \in 1..Len(idx) |->
               [a \in 1..pred_attr.shape[2] |-> pred_attr.data[idx[l]][a] > 5000]])

stats_row(correct_bboxes, pred_attr, tattr, pred, cls) ==
    [correct_bboxes |-> correct_bboxes,
     pred_attr      |-> pred_attr,
     tattributes    |-> tattr,
     conf           |-> [p \in 1..Len(pred) |-> pred[p].conf],
     pred_cls       |-> [p \in 1..Len(pred) |-> pred[p].cls],
     target_cls     |-> cls]

(***************************************************************************)
(* DWAValidator.pred_to_json                                               *)
(***************************************************************************)
class_map(c) == c + 1

\* Variant: the centre left where it is.
keep_centre(box) == box

\* box[:, :2] -= box[:, 2:] / 2
to_top_left(box) == <<box[1] - box[3] \div 2, box[2] - box[4] \div 2, box[3], box[4]>>

json_box(b) ==
    LET box == to_top_left(xyxy2xywh(b))
    IN  <<round3(box[1]), round3(box[2]), round3(box[3]), round3(box[4])>>

pred_to_json(predn, filename) ==
    LET image_id == IF filename.stem[1] = "digits" THEN filename.stem[2] ELSE filename.stem
    IN  [p \in 1..Len(predn) |->
            [image_id    |-> image_id,
             category_id |-> class_map(predn[p].cls),
             bbox        |-> json_box(predn[p].box),
             attributes  |-> predn[p].attr,
             score       |-> round5(predn[p].conf)]]

(***************************************************************************)
(* The loop of update_metrics.  The locals of one iteration:               *)
(***************************************************************************)
Locals(i) ==
    LET keep == rows_of(batch, i)
        pred == apply_single_cls(preds[i], args.single_cls)
        cls  == select(batch.cls, keep)
        bbox == select(batch.bboxes, keep)
        attributes == select_rows(batch.attributes, keep)
        predn == native_pred(pred, batch.ori_shape[i], batch.ratio_pad[i])
        tbox == target_boxes(bbox, batch.img, batch.ori_shape[i], batch.ratio_pad[i])
    IN  [nl |-> Len(cls), npr |-> Len(preds[i]), num_attr |-> attributes.shape[2],
         pred |-> pred, cls |-> cls, attributes |-> attributes, predn |-> predn,
         pred_attr |-> pred_attr_of(predn, attributes.shape[2]),
         labelsn |-> [l \in 1..Len(cls) |-> [cls |-> cls[l], box |-> tbox[l]]]]

TieOrders(v) ==
    IF v.npr > 0 /\ v.nl > 0
    THEN tie_orders([p \in 1..v.npr |-> v.predn[p].cls], v.cls,
                    box_iou([l \in 1..v.nl |-> v.labelsn[l].box],
                            [p \in 1..v.npr |-> v.predn[p].box]))
    ELSE {<<>>}

update_metrics_call ==
    /\ pc = "ready"
    /\ pc' = "loop"
    /\ si' = 1
    /\ tattributes' = Unbound
    /\ UNCHANGED <<args, preds, batch, stats, seen, jdict, confusion_matrix, num_attrs>>

update_metrics_image ==
    /\ pc = "loop"
    /\ si <= Len(preds)
    /\ seen' = seen + 1
    /\ LET v == Locals(si)
           correct_bboxes == init_correct_bboxes(v.npr)
       IN  \E tie \in TieOrders(v) :
           IF v.npr = 0
           THEN /\ stats' = IF appends_without_predictions(v.nl)
                            THEN Append(stats, empty_stats_row(correct_bboxes, v.num_attr, v.cls))
                            ELSE stats
                /\ confusion_matrix' =
                       IF appends_without_predictions(v.nl) /\ args.plots
                       THEN Append(confusion_matrix, [detections |-> "None", labels |-> v.cls])
                       ELSE confusion_matrix
                /\ si' = si + 1
                /\ UNCHANGED <<pc, jdict, tattributes>>
           ELSE IF v.nl > 0
           THEN LET r == process_batch(v.predn, v.labelsn, tie)
                    tattr == bool_attributes(v.attributes)
                IN  /\ tattributes' = Bound(tattr)
                    /\ stats' = Append(stats, stats_row(r.correct, threshold(v.pred_attr, r.idx),
                                                        tattr, v.pred, v.cls))
                    /\ confusion_matrix' =
                           IF args.plots
                           THEN Append(confusion_matrix,
                                       [detections |-> v.predn, labels |-> v.labelsn])
                           ELSE confusion_matrix
                    /\ jdict' = IF args.save_json
                                THEN jdict \o pred_to_json(v.predn, batch.im_file[si])
                                ELSE jdict
                    /\ si' = si + 1
                    /\ UNCHANGED pc
           ELSE IF ~tattributes.bound
           THEN \* line 114 reads a local that no earlier iteration assigned
                /\ pc' = "raised"
                /\ UNCHANGED <<si, stats, jdict, confusion_matrix, tattributes>>
           ELSE /\ stats' = Append(stats, stats_row(correct_bboxes, v.pred_attr,
                                                    tattributes.value, v.pred, v.cls))
                /\ jdict' = IF args.save_json
                            THEN jdict \o pred_to_json(v.predn, batch.im_file[si])
                            ELSE jdict
                /\ si' = si + 1
                /\ UNCHANGED <<pc, confusion_matrix, tattributes>>
    /\ UNCHANGED <<args, preds, batch, num_attrs>>

update_metrics_return ==
    /\ pc = "loop"
    /\ si > Len(preds)
    /\ pc' = "returned"
    /\ UNCHANGED <<args, preds, batch, si, stats, seen, jdict, confusion_matrix,
                   tattributes, num_attrs>>

Next == init_metrics \/ update_metrics_call \/ update_metrics_image \/ update_metrics_return

Spec == Init /\ [][Next]_vars

SpecMatch == InitMatch /\ [][Next]_vars

SpecAttr == InitAttr /\ [][Next]_vars

(***************************************************************************)
(* Vocabulary of the properties.  In a step of update_metrics_image the    *)
(* image being processed is image si of the state the step starts in.      *)
(***************************************************************************)
InLoop == pc = "loop" /\ si <= Len(preds)

Npr(i) == Len(preds[i])

Nl(i) == Cardinality(rows_of(batch, i))

Appended == Len(stats') = Len(stats) + 1

LastRow == stats[Len(stats)]

AllFalse(t) == \A r \in 1..Len(t.data) : \A c \in 1..Len(t.data[r]) : t.data[r][c] = FALSE

WellShaped(t) ==
    /\ Len(t.data) = t.shape[1]
    /\ \A r \in 1..Len(t.data) : Len(t.data[r]) = t.shape[2]

\* C1: an image with zero predictions and zero labels leaves the statistics
\* list, the confusion-matrix accumulator and the JSON list unchanged,
\* wherever it stands in the batch.
C1_EmptyImageAppendsNothing ==
    [][(InLoop /\ Npr(si) = 0 /\ Nl(si) = 0)
         => (stats' = stats /\ confusion_matrix' = confusion_matrix /\ jdict' = jdict)]_vars

C1_Witness ==
    /\ pc = "loop" /\ si = 3
    /\ Npr(2) = 0 /\ Nl(2) = 0
    /\ seen = 2 /\ Len(stats) = 1 /\ Len(jdict) > 0 /\ Len(confusion_matrix) > 0

\* C2: every appended correctness matrix has 10 columns and one row per
\* prediction of its image; for an image with no predictions and at least
\* one label it is all false with 0 rows and 10 columns, and the predicted
\* and true attribute matrices have 0 rows and num_attr columns.  Rows once
\* stored are never changed.
C2_CorrectnessShape ==
    [][/\ Len(stats') >= Len(stats)
       /\ SubSeq(stats', 1, Len(stats)) = stats
       /\ Appended =>
            LET row == stats'[Len(stats')]
            IN  /\ row.correct_bboxes.shape = <<Npr(si), 10>>
                /\ WellShaped(row.correct_bboxes)
                /\ row.correct_bboxes.dtype = "bool"
                /\ Npr(si) = 0 =>
                     /\ Nl(si) >= 1
                     /\ AllFalse(row.correct_bboxes)
                     /\ row.pred_attr.shape = <<0, NumAttr>>
                     /\ row.tattributes.shape = <<0, NumAttr>>
                     /\ row.pred_attr.data = <<>> /\ row.tattributes.data = <<>>]_vars

C2_Witness ==
    /\ pc = "returned" /\ Len(stats) = 2
    /\ Npr(1) = MaxPred /\ stats[1].correct_bboxes.shape = <<MaxPred, 10>>
    /\ Npr(2) = 0 /\ Nl(2) = MaxLabel
    /\ stats[2].correct_bboxes.shape = <<0, 10>>
    /\ stats[2].pred_attr.shape = <<0, NumAttr>>

\* Every label's row of the matrix is some prediction's probability
\* vector, each entry true exactly when the probability is >= 0.5.
ThresholdedFromHalf(row) ==
    \A l \in 1..Len(row.pred_attr.data) :
        \E p \in 1..Npr(si) :
            \A a \in 1..NumAttr :
                row.pred_attr.data[l][a] = (sigmoid(preds[si][p].attr[a]) >= 5000)

\* The same, each entry true exactly when the probability is > 0.5.
ThresholdedAboveHalf(row) ==
    \A l \in 1..Len(row.pred_attr.data) :
        \E p \in 1..Npr(si) :
            \A a \in 1..NumAttr :
                row.pred_attr.data[l][a] = (sigmoid(preds[si][p].attr[a]) > 5000)

\* C3 as stated: for every matched prediction and attribute the boolean
\* predicted attribute is true exactly when the probability is >= 0.5.
C3_TrueFromHalf ==
    [][(Appended /\ Npr(si) > 0 /\ Nl(si) > 0)
         => ThresholdedFromHalf(stats'[Len(stats')])]_vars

\* C3 amended: the boolean predicted attribute is true exactly when the
\* probability is > 0.5, so a probability of exactly 0.5 yields false; it
\* depends on the probability alone.
C3_TrueAboveHalf ==
    [][(Appended /\ Npr(si) > 0 /\ Nl(si) > 0)
         => /\ stats'[Len(stats')].pred_attr.dtype = "bool"
            /\ ThresholdedAboveHalf(stats'[Len(stats')])]_vars

C3_Witness ==
    /\ pc = "returned" /\ Len(stats) = 1 /\ Npr(1) = 1
    /\ preds[1][1].attr[1] = 0 /\ preds[1][1].attr[2] = 1
    /\ LastRow.pred_attr.data[1][1] = FALSE
    /\ LastRow.pred_attr.data[1][2] = TRUE

(***************************************************************************)
(* Matching.  Boxes and classes are those handed to _process_batch: in the *)
(* original image's space, the classes after single_cls.                   *)
(***************************************************************************)
PBox(p) == Locals(si).predn[p].box

PCls(p) == Locals(si).predn[p].cls

GBox(l) == Locals(si).labelsn[l].box

GCls(l) == Locals(si).labelsn[l].cls

Iou(l, p) == box_iou_pair(GBox(l), PBox(p))

Matched == Appended /\ Npr(si) > 0 /\ Nl(si) > 0

\* Row p of the appended correctness matrix at threshold i.
Correct(p, i) == stats'[Len(stats')].correct_bboxes.data[p][i]

ExactMatch(l, p) == PBox(p) = GBox(l) /\ PCls(p) = GCls(l) /\ area(PBox(p)) > 0

\* An earlier (higher-confidence) prediction of the label's class that
\* reaches threshold t against label l.
Rival(l, p, t) ==
    \E q \in 1..(p - 1) : PCls(q) = GCls(l) /\ IouReaches(Iou(l, q), t)

C5_BelowLowestThresholdIsFalse ==
    [][Matched =>
         \A p \in 1..Npr(si) :
             (\A l \in 1..Nl(si) : GCls(l) = PCls(p) => ~IouReaches(Iou(l, p), 50))
                 => \A i \in 1..10 : ~Correct(p, i)]_vars

C5_Witness ==
    /\ pc = "returned" /\ Len(stats) = 1 /\ Npr(1) = 1 /\ Nl(1) = 2
    /\ preds[1][1].box = BoxB /\ preds[1][1].cls = 0
    /\ batch.bboxes[1] = normalised(BoxE) /\ batch.cls[1] = 0
    /\ batch.bboxes[2] = normalised(BoxA) /\ batch.cls[2] = 1
    /\ AllFalse(LastRow.correct_bboxes)

\* Two predictions of label l's class, p before q, with equal IoU against l.
TiedPair(l, p, q) ==
    /\ p < q
    /\ PCls(p) = GCls(l) /\ PCls(q) = GCls(l)
    /\ IouEq(Iou(l, p), Iou(l, q))

DistinctTruths ==
    \A k \in 1..Nl(si) : \A l \in 1..Nl(si) :
        k # l => (GBox(k) # GBox(l) \/ GCls(k) # GCls(l))

C7_JsonBoxRoundTrip ==
    [][(InLoop /\ args.save_json /\ Appended /\ Npr(si) > 0) =>
         /\ Len(jdict') = Len(jdict) + Npr(si)
         /\ SubSeq(jdict', 1, Len(jdict)) = jdict
         /\ \A p \in 1..Npr(si) :
                LET b   == jdict'[Len(jdict) + p].bbox
                    box == PBox(p)
                IN  /\ b = <<10000 * box[1], 10000 * box[2],
                             10000 * (box[3] - box[1]), 10000 * (box[4] - box[2])>>
                    /\ <<b[1], b[2], b[1] + b[3], b[2] + b[4]>>
                           = <<10000 * box[1], 10000 * box[2], 10000 * box[3], 10000 * box[4]>>]_vars

C7_Witness ==
    /\ pc = "returned" /\ Len(jdict) = 2 /\ Npr(1) = 2
    /\ batch.ori_shape[1] = Halved.ori_shape
    /\ preds[1][2].box = BoxF
    /\ jdict[2].bbox = <<20000, 0, 100000, 160000>>

\* C10: with labels and predictions the predicted-attribute matrix has one
\* row per label, and row l holds the thresholded attributes of a
\* prediction whose IoU with ground-truth box l is the maximum over all
\* predictions, whatever their class and however small that IoU.
C10_AttributesOfBestIouPerLabel ==
    [][Matched =>
         LET row == stats'[Len(stats')]
         IN  /\ row.pred_attr.shape = <<Nl(si), NumAttr>>
             /\ WellShaped(row.pred_attr)
             /\ \A l \in 1..Nl(si) :
                    \E p \in 1..Npr(si) :
                        /\ \A q \in 1..Npr(si) : ~IouGt(Iou(l, q), Iou(l, p))
                        /\ row.pred_attr.data[l]
                               = [a \in 1..NumAttr |-> sigmoid(preds[si][p].attr[a]) > 5000]]_vars

C10_Witness ==
    /\ pc = "returned" /\ Len(stats) = 1 /\ Npr(1) = 2 /\ Nl(1) = 2
    /\ preds[1][1].box = BoxB /\ preds[1][2].box = BoxA /\ preds[1][2].cls = 1
    /\ batch.bboxes[1] = normalised(BoxA) /\ batch.cls[1] = 0
    /\ batch.bboxes[2] = normalised(BoxE) /\ batch.cls[2] = 0
    /\ LastRow.pred_attr.data[1] = LastRow.pred_attr.data[2]
    /\ LastRow.pred_attr.data[1] = [a \in 1..NumAttr |-> BitLogit(2, a) = 1]

(***************************************************************************)
(* The batch as a whole.                                                   *)
(***************************************************************************)
RECURSIVE RowsDue(_)
RowsDue(n) ==
    IF n = 0 THEN 0
    ELSE RowsDue(n - 1) + (IF Npr(n) > 0 \/ Nl(n) > 0 THEN 1 ELSE 0)

\* C8: update_metrics completes for any batch; when it has returned the
\* statistics list holds one row for every image with a prediction or a
\* label and seen counts every image of the batch.
C8_OneRowPerNonEmptyImage ==
    /\ pc # "raised"
    /\ pc = "loop" => (Len(stats) = RowsDue(si - 1) /\ seen = si - 1)
    /\ pc = "returned" => (Len(stats) = RowsDue(Len(preds)) /\ seen = Len(preds))

\* C9: the row appended for an image with predictions holds the boolean
\* ground-truth attribute flags of that same image, and its predicted and
\* true attribute matrices are boolean and of one shape.
C9_RowOfItsOwnImage ==
    [][(InLoop /\ Appended /\ Npr(si) > 0) =>
         LET row == stats'[Len(stats')]
         IN  /\ row.tattributes = bool_attributes(select_rows(batch.attributes, rows_of(batch, si)))
             /\ row.pred_attr.shape = row.tattributes.shape
             /\ row.pred_attr.dtype = "bool" /\ row.tattributes.dtype = "bool"]_vars

============================================================================
